---- MODULE Spec2Model ----
(***************************************************************************)
(* The refresh engine of angular-dfp (the dfpRefresh provider of           *)
(* src/angular-dfp.js) as a state machine.                                 *)
(*                                                                         *)
(* Every function of the service is an operator that maps a state record   *)
(* to a state record.  A JavaScript exception is the field err of that     *)
(* record: once it is set, the rest of the call is skipped (Then), and     *)
(* the assignments made before the throw are kept, as in JavaScript.       *)
(* One action of Next is one call of the public API or one tick of a       *)
(* live $interval timer.                                                   *)
(*                                                                         *)
(* Init is the closure of $get at its last statement, the first           *)
(* prioritize(); the exception that statement raises is the err of the    *)
(* log's first entry, and the service's functions are then called on the  *)
(* state it left.                                                          *)
(*                                                                         *)
(* Environment: Promise.defer and the injected parseDuration service are   *)
(* available, googletag.pubads() is loaded, a slot converts to a property  *)
(* key of its own, and timers may tick at any time (time is abstracted).   *)
(* googletag.cmd is the queue the service pushes to; running the queue is  *)
(* the ad library's part and no action of the service.                     *)
(***************************************************************************)
EXTENDS Integers, Sequences, FiniteSets, TLC

\* ------------------------------------------------------------------ bounds
MaxLog == 5         \* the configuration call and the requests after it
MaxTimers == 2      \* live $interval timers
MaxBuffer == 4      \* entries of the buffer
MaxTasks == 3       \* tasks the engine's functions hold at a time
MaxLen == 4         \* characters of a duration string
MaxDigits == 2      \* digits among them

\* ------------------------------------------------------- program constants
DefaultBufferInterval == 1000
DefaultRefreshInterval == 3600000
DefaultPriority == 1

\* --------------------------------------------------------------- JS values
\* null is the empty tuple and a value v is <<v>>, so that null compares
\* with every value.
Null == <<>>
Some(v) == <<v>>
Val(m) == m[1]

NoError == "none"
InvalidOptionError == "DFPRefreshError: Invalid option"
InvalidPriorityError == "DFPRefreshError: Priority is not a number"
NoIntervalError == "DFPRefreshError: No interval for given slot"
DFPDurationError == "DFPDurationError: Invalid interval"
TypeError == "TypeError"

\* The result of a function that returns a value or throws.
Ret(v) == [err |-> NoError, val |-> v]
Throw(e) == [err |-> e, val |-> Null]

\* A number of the priority table; JavaScript's undefined and NaN are values.
JSNum(n) == [t |-> "number", v |-> n]
JSBool(b) == [t |-> "boolean", v |-> IF b THEN 1 ELSE 0]
JSUndefined == [t |-> "undefined", v |-> 0]
JSNaN == [t |-> "NaN", v |-> 0]
JSString == [t |-> "string", v |-> 0]
Truthy(x) == x.t \in {"boolean", "number"} /\ x.v # 0
StrictEquals(x, y) == x.t # "NaN" /\ x = y

\* ------------------------------------------------------- dfpParseDuration
\* An interval given by a caller: a number, a string (its characters) or
\* a value of another type.
NumberInput(n) == [t |-> "number", n |-> n, s |-> <<>>]
StringInput(s) == [t |-> "string", n |-> 0, s |-> s]
ObjectInput == [t |-> "object", n |-> 0, s |-> <<>>]
FunctionInput == [t |-> "function", n |-> 0, s |-> <<>>]
UndefinedInput == [t |-> "undefined", n |-> 0, s |-> <<>>]

Digits == {"0", "1", "2", "3", "4", "5", "6", "7", "8", "9"}
DigitValue(c) ==
  CASE c = "0" -> 0 [] c = "1" -> 1 [] c = "2" -> 2 [] c = "3" -> 3
    [] c = "4" -> 4 [] c = "5" -> 5 [] c = "6" -> 6 [] c = "7" -> 7
    [] c = "8" -> 8 [] c = "9" -> 9

\* parseInt(digits, 10)
RECURSIVE parseInt(_)
parseInt(ds) ==
  IF ds = <<>> THEN 0
  ELSE parseInt(SubSeq(ds, 1, Len(ds) - 1)) * 10 + DigitValue(ds[Len(ds)])

convertToMilliseconds(time, unit) ==
  IF unit = <<"m", "s">> THEN time
  ELSE IF unit = <<"s">> THEN time * 1000
  ELSE IF unit = <<"m", "i", "n">> THEN time * 60 * 1000
  ELSE time * 60 * 60 * 1000

\* interval.match(/(\d+)(m?s|min|h)?/): the leftmost run of digits and the
\* unit that follows it; Null when the string holds no digit.  The match
\* array is <<whole match, digits, unit>>; a group that took no part is
\* the string "undefined".
Undefined == <<"undefined">>
HasPrefixAt(s, i, p) ==
  /\ i + Len(p) - 1 <= Len(s)
  /\ SubSeq(s, i, i + Len(p) - 1) = p
UnitAt(s, i) ==
  IF HasPrefixAt(s, i, <<"m", "s">>) THEN <<"m", "s">>
  ELSE IF HasPrefixAt(s, i, <<"s">>) THEN <<"s">>
  ELSE IF HasPrefixAt(s, i, <<"m", "i", "n">>) THEN <<"m", "i", "n">>
  ELSE IF HasPrefixAt(s, i, <<"h">>) THEN <<"h">>
  ELSE Undefined
DurationMatch(s) ==
  IF \A i \in 1..Len(s) : s[i] \notin Digits THEN Null
  ELSE
    LET first == CHOOSE i \in 1..Len(s) :
                   s[i] \in Digits /\ \A j \in 1..(i - 1) : s[j] \notin Digits
        last == CHOOSE k \in first..Len(s) :
                  /\ \A j \in first..k : s[j] \in Digits
                  /\ (k = Len(s) \/ s[k + 1] \notin Digits)
        digits == SubSeq(s, first, last)
        unit == UnitAt(s, last + 1)
    IN Some(<<digits \o (IF unit = Undefined THEN <<>> ELSE unit), digits, unit>>)

convert(match) ==
  LET time == parseInt(match[2])
  IN IF Len(match) = 2 THEN time
     ELSE convertToMilliseconds(time, match[3])

dfpParseDuration(interval) ==
  IF interval.t = "number" THEN Ret(interval.n)
  ELSE IF interval.t # "string" THEN Throw(TypeError)
  ELSE LET match == DurationMatch(interval.s)
       IN IF match = Null THEN Throw(DFPDurationError)
          ELSE Ret(convert(Val(match)))

\* ------------------------------------------------------------------- state
VARIABLES
  bufferInterval,   \* self.bufferInterval: Null or milliseconds
  bufferBarrier,    \* self.bufferBarrier: Null or a count
  oneShotBarrier,   \* self.oneShotBarrier
  refreshInterval,  \* self.refreshInterval: Null or milliseconds
  priority,         \* self.priority: property name -> JS value
  buffer,           \* the buffer: a sequence of Some(task) or Null
  intervals,        \* the timer handles: property name -> Null or Some(handle)
  isEnabled,        \* the activity flags of the three mechanisms
  timers,           \* the live $interval timers
  cmd,              \* googletag.cmd: the batches pushed and not yet run
  log,              \* the calls and ticks observed, the latest one last:
                    \* each with its name, argument and outcome
  watcher           \* the closure of makeResponsive: Null before
                    \* responsiveResize is called, then Some of the slot,
                    \* the boundaries, the index and the window's width

vars == <<bufferInterval, bufferBarrier, oneShotBarrier, refreshInterval,
          priority, buffer, intervals, isEnabled, timers, cmd, log, watcher>>

Slots == {"a", "b"}

Options == [REFRESH |-> "refresh", INTERVAL |-> "interval", BARRIER |-> "barrier"]
\* Object.keys(Options), in insertion order
OptionKeys == <<"REFRESH", "INTERVAL", "BARRIER">>

\* The state a call works on: the variables, the Dispatcher calls the call
\* has issued so far (out) and the exception it has raised (err).
State ==
  [bufferInterval |-> bufferInterval, bufferBarrier |-> bufferBarrier,
   oneShotBarrier |-> oneShotBarrier, refreshInterval |-> refreshInterval,
   priority |-> priority, buffer |-> buffer, intervals |-> intervals,
   isEnabled |-> isEnabled, timers |-> timers, cmd |-> cmd,
   out |-> <<>>, err |-> NoError]

\* f after s, unless s has thrown.
Then(s, f(_)) == IF s.err # NoError THEN s ELSE f(s)
Raise(s, e) == [s EXCEPT !.err = e]

\* A Dispatcher call: the argument-less refresh of all slots, or the
\* refresh of a batch of slots.
DispatchAll == [kind |-> "all", slots |-> <<>>]
DispatchBatch(slots) == [kind |-> "batch", slots |-> slots]

Task(slot, id) == [slot |-> slot, id |-> id]

RECURSIVE SeqToSet(_)
SeqToSet(q) == IF q = <<>> THEN {} ELSE {Head(q)} \cup SeqToSet(Tail(q))
RECURSIVE Flatten(_)
Flatten(qq) == IF qq = <<>> THEN <<>> ELSE Head(qq) \o Flatten(Tail(qq))

\* Promise.defer(): a deferred no live task holds.
LiveTasks(s) ==
  {Val(e) : e \in {x \in SeqToSet(s.buffer) : x # Null}}
    \cup SeqToSet(Flatten(s.cmd))
    \cup {Val(t.task) : t \in {x \in s.timers : x.task # Null}}
FreshDeferred(s) ==
  LET used == {k.id : k \in LiveTasks(s)}
  IN CHOOSE n \in 1..(Cardinality(used) + 1) :
       n \notin used /\ \A m \in 1..(n - 1) : m \in used

\* $interval(fn, delay): a new live timer; its handle is one no live timer
\* and no entry of intervals holds.
FreshHandle(s) ==
  LET used == {t.h : t \in s.timers}
                \cup {Val(s.intervals[k]) :
                        k \in {x \in DOMAIN s.intervals : s.intervals[x] # Null}}
  IN CHOOSE n \in 1..(Cardinality(used) + 1) :
       n \notin used /\ \A m \in 1..(n - 1) : m \in used
Timer(h, kind, task) == [h |-> h, kind |-> kind, task |-> task]
\* $interval.cancel(promise): cancelling null or a dead handle does nothing.
IntervalCancel(s, promise) ==
  IF promise = Null THEN s
  ELSE [s EXCEPT !.timers = {t \in s.timers : t.h # Val(promise)}]

\* ------------------------------------------------------- the main refresh
\* refresh(tasks): the argument is absent (NoTasks) or an array.  Without
\* an argument all slots are refreshed, and the read of tasks.length that
\* follows throws.  The filter reads pair.slot of every entry and throws
\* on a null entry.  The batch is pushed to googletag.cmd.
NoTasks == [given |-> FALSE, list |-> <<>>]
Tasks(list) == [given |-> TRUE, list |-> list]

\* refresh with the batch in the reverse order: what C20 rules out.
refreshReversed(s, tasks) ==
  IF ~tasks.given
    THEN Raise([s EXCEPT !.out = Append(@, DispatchAll)], TypeError)
  ELSE IF Len(tasks.list) = 0 THEN s
  ELSE IF \E i \in 1..Len(tasks.list) : tasks.list[i] = Null
    THEN Raise(s, TypeError)
  ELSE
    LET n == Len(tasks.list)
        batch == [i \in 1..n |-> Val(tasks.list[n + 1 - i])]
    IN [s EXCEPT !.cmd = Append(@, batch),
                 !.out = Append(@, DispatchBatch([i \in 1..n |-> batch[i].slot]))]

refresh(s, tasks) ==
  IF ~tasks.given
    THEN Raise([s EXCEPT !.out = Append(@, DispatchAll)], TypeError)
  ELSE IF Len(tasks.list) = 0 THEN s
  ELSE IF \E i \in 1..Len(tasks.list) : tasks.list[i] = Null
    THEN Raise(s, TypeError)
  ELSE
    LET batch == [i \in 1..Len(tasks.list) |-> Val(tasks.list[i])]
    IN [s EXCEPT !.cmd = Append(@, batch),
                 !.out = Append(@, DispatchBatch([i \in 1..Len(batch) |-> batch[i].slot]))]

\* The command refresh pushes to googletag.cmd, as the ad library runs it:
\* the events it causes in order, first the Dispatcher call for the slots
\* of the tasks, then the resolve of each task's deferred.
DispatchEvent(tasks) ==
  [kind |-> "dispatch", slots |-> [i \in 1..Len(tasks) |-> tasks[i].slot], id |-> 0]
ResolveEvent(task) == [kind |-> "resolve", slots |-> <<task.slot>>, id |-> task.id]
\* The same events with the resolves first: what C16 rules out.
CommandResolveFirst(tasks) ==
  [i \in 1..Len(tasks) |-> ResolveEvent(tasks[i])] \o <<DispatchEvent(tasks)>>
Command(tasks) ==
  <<DispatchEvent(tasks)>> \o [i \in 1..Len(tasks) |-> ResolveEvent(tasks[i])]

\* A fill that leaves the entries as they are: what C17 rules out.
KeepBuffer(s) == s
\* buffer.fill(null)
FillNull(s) == [s EXCEPT !.buffer = [i \in 1..Len(s.buffer) |-> Null]]

\* A flush that leaves the buffer as it is: what C37 rules out.
flushBufferKeeping(s) == refresh(s, Tasks(s.buffer))
flushBuffer(s) ==
  Then(refresh(s, Tasks(s.buffer)), LAMBDA x : [x EXCEPT !.buffer = <<>>])

\* ------------------------------------------------ enabling and disabling
\* The callback of the global refresh timer.
refreshIntervalTask(s) == refresh(FillNull(s), NoTasks)

enableRefreshInterval(s) ==
  LET promise == FreshHandle(s)
  IN [s EXCEPT !.timers = @ \cup {Timer(promise, "refresh", Null)},
               !.intervals = [@ EXCEPT !.refresh = Some(promise)],
               !.isEnabled = [@ EXCEPT !.refresh = TRUE]]

disableRefreshInterval(s) ==
  IF s.isEnabled.refresh
    THEN LET x == IntervalCancel(s, s.intervals.refresh)
         IN [x EXCEPT !.intervals = [@ EXCEPT !.refresh = Null],
                      !.isEnabled = [@ EXCEPT !.refresh = FALSE]]
    ELSE s

\* The callback of the buffer-flush timer.
bufferIntervalTask(s) == Then(refresh(s, Tasks(s.buffer)), FillNull)

enableBufferInterval(s) ==
  LET promise == FreshHandle(s)
  IN [s EXCEPT !.timers = @ \cup {Timer(promise, "buffer", Null)},
               !.intervals = [@ EXCEPT !.buffer = Some(promise)],
               !.isEnabled = [@ EXCEPT !.interval = TRUE]]

disableBufferInterval(s) ==
  IF s.isEnabled.interval
    THEN LET x == IntervalCancel(s, s.intervals.buffer)
         IN [x EXCEPT !.intervals = [@ EXCEPT !.buffer = Null],
                      !.isEnabled = [@ EXCEPT !.interval = FALSE]]
    ELSE s

enableBufferBarrier(s) == [s EXCEPT !.isEnabled = [@ EXCEPT !.barrier = TRUE]]
disableBufferBarrier(s) == [s EXCEPT !.isEnabled = [@ EXCEPT !.barrier = FALSE]]

\* The default branch of both switches is console.assert(false), which
\* logs and goes on.
disable(s, option) ==
  CASE option = Options.REFRESH -> disableRefreshInterval(s)
    [] option = Options.INTERVAL -> disableBufferInterval(s)
    [] option = Options.BARRIER -> disableBufferBarrier(s)
    [] OTHER -> s

enable(s, option) ==
  CASE option = Options.REFRESH -> enableRefreshInterval(s)
    [] option = Options.INTERVAL -> enableBufferInterval(s)
    [] option = Options.BARRIER -> enableBufferBarrier(s)
    [] OTHER -> s

\* ---------------------------------------------------------------- queries
hasBufferInterval(s) == s.bufferInterval # Null
hasBufferBarrier(s) == s.bufferBarrier # Null
hasRefreshInterval(s) == s.refreshInterval # Null

has(s, option) ==
  CASE option = Options.REFRESH -> Ret(hasRefreshInterval(s))
    [] option = Options.INTERVAL -> Ret(hasBufferInterval(s))
    [] option = Options.BARRIER -> Ret(hasBufferBarrier(s))
    [] OTHER -> Throw(InvalidOptionError)

\* option in Options: the test is on the property names of Options, the
\* names it inherits from Object.prototype included.
ObjectPrototype ==
  {"constructor", "hasOwnProperty", "isPrototypeOf", "propertyIsEnumerable",
   "toLocaleString", "toString", "valueOf"}
ensureValidOption(option) ==
  IF option \notin DOMAIN Options \cup ObjectPrototype
    THEN Throw(InvalidOptionError) ELSE Ret(Null)

\* A test that lets every weight pass: what C22 rules out.
acceptAnyPriority(p) == Ret(Null)
ensureValidPriority(p) ==
  IF p.t # "number" THEN Throw(InvalidPriorityError) ELSE Ret(Null)

\* isEnabled[option]: undefined for a name the sealed object does not have.
dfpRefresh_isEnabled(s, option) ==
  LET valid == ensureValidOption(option)
  IN IF valid.err # NoError THEN valid
     ELSE Ret(IF option \in DOMAIN s.isEnabled
                THEN JSBool(s.isEnabled[option]) ELSE JSUndefined)

\* [Options.BARRIER, Options.INTERVAL].some(dfpRefresh.isEnabled)
isBuffering(s) ==
  LET barrier == dfpRefresh_isEnabled(s, Options.BARRIER)
      interval == dfpRefresh_isEnabled(s, Options.INTERVAL)
  IN IF barrier.err # NoError THEN barrier
     ELSE IF Truthy(barrier.val) THEN Ret(TRUE)
     ELSE IF interval.err # NoError THEN interval
     ELSE Ret(Truthy(interval.val))

\* self.priority[option]
getPriorityOf(s, option) ==
  IF option \in DOMAIN s.priority THEN s.priority[option] ELSE JSUndefined

\* ------------------------------------------------------------- prioritize
\* options.filter(dfpRefresh.has): the first throw of has ends the call.
RECURSIVE FilterHas(_, _)
FilterHas(s, options) ==
  IF options = <<>> THEN Ret(<<>>)
  ELSE LET first == has(s, Head(options))
           rest == FilterHas(s, Tail(options))
       IN IF first.err # NoError THEN first
          ELSE IF rest.err # NoError THEN rest
          ELSE Ret((IF first.val THEN <<Head(options)>> ELSE <<>>) \o rest.val)

MathMax(a, b) ==
  IF a.t # "number" \/ b.t # "number" THEN JSNaN
  ELSE JSNum(IF a.v >= b.v THEN a.v ELSE b.v)

\* priorities.reduce(Math.max) with no initial value: a TypeError on an
\* empty array, the element itself on an array of one.
RECURSIVE ReduceMax(_, _)
ReduceMax(acc, rest) ==
  IF rest = <<>> THEN acc ELSE ReduceMax(MathMax(acc, Head(rest)), Tail(rest))

RECURSIVE PrioritizeLoop(_, _, _, _, _)
PrioritizeLoop(s, available, priorities, maximum, index) ==
  IF index > Len(available) THEN s
  ELSE PrioritizeLoop(
         IF StrictEquals(priorities[index], maximum)
           THEN enable(s, available[index])
           ELSE disable(s, available[index]),
         available, priorities, maximum, index + 1)

prioritize(s) ==
  LET available == FilterHas(s, OptionKeys)
  IN IF available.err # NoError THEN Raise(s, available.err)
     ELSE
       LET priorities == [i \in 1..Len(available.val) |->
                            getPriorityOf(s, available.val[i])]
       IN IF priorities = <<>> THEN Raise(s, TypeError)
          ELSE PrioritizeLoop(s, available.val, priorities,
                              ReduceMax(Head(priorities), Tail(priorities)), 1)

\* ------------------------------------------------------------ the service
clearBufferBarrier(s) ==
  IF ~hasBufferBarrier(s) THEN s
  ELSE prioritize([s EXCEPT !.bufferBarrier = Null])

\* bufferRefresh with the task put at the head: what C18 rules out.
bufferRefreshAtHead(s, task) ==
  LET pushed == [s EXCEPT !.buffer = <<Some(task)>> \o @]
  IN IF ~pushed.isEnabled[Options.BARRIER] THEN pushed
     ELSE IF Some(Len(pushed.buffer)) = pushed.bufferBarrier
       THEN Then(flushBuffer(pushed),
                 LAMBDA x : IF x.oneShotBarrier THEN clearBufferBarrier(x) ELSE x)
     ELSE pushed

bufferRefresh(s, task) ==
  LET pushed == [s EXCEPT !.buffer = Append(@, Some(task))]
  IN IF ~pushed.isEnabled[Options.BARRIER] THEN pushed
     ELSE IF Some(Len(pushed.buffer)) = pushed.bufferBarrier
       THEN Then(flushBuffer(pushed),
                 LAMBDA x : IF x.oneShotBarrier THEN clearBufferBarrier(x) ELSE x)
     ELSE pushed

scheduleRefresh(s, task) ==
  LET buffering == isBuffering(s)
  IN IF buffering.err # NoError THEN Raise(s, buffering.err)
     ELSE IF buffering.val THEN bufferRefresh(s, task)
     ELSE refresh(s, Tasks(<<Some(task)>>))

\* The callback of a slot's recurring timer.
slotIntervalTask(s, task) == scheduleRefresh(s, task)

\* A registration that also takes the place of the global refresh timer's
\* handle: what C38 rules out.
addSlotIntervalAsRefresh(s, task, interval) ==
  LET parsed == dfpParseDuration(interval)
      promise == FreshHandle(s)
  IN IF parsed.err # NoError THEN Raise(s, parsed.err)
     ELSE [s EXCEPT
             !.timers = @ \cup {Timer(promise, "slot", Some(task))},
             !.intervals = [k \in DOMAIN @ \cup {task.slot} |->
                              IF k \in {task.slot, "refresh"}
                                THEN Some(promise) ELSE @[k]]]

addSlotInterval(s, task, interval) ==
  LET parsed == dfpParseDuration(interval)
      promise == FreshHandle(s)
  IN IF parsed.err # NoError THEN Raise(s, parsed.err)
     ELSE [s EXCEPT
             !.timers = @ \cup {Timer(promise, "slot", Some(task))},
             !.intervals = [k \in DOMAIN @ \cup {task.slot} |->
                              IF k = task.slot THEN Some(promise) ELSE @[k]]]

\* dfpRefresh(slot, interval, callback): a function given as the interval
\* is the callback, and no interval is given then.
dfpRefresh(s, slot, interval) ==
  LET task == Task(slot, FreshDeferred(s))
  IN IF interval.t \in {"undefined", "function"}
       THEN scheduleRefresh(s, task)
       ELSE addSlotInterval(s, task, interval)

\* slot in self.intervals: self is the provider, which has no property
\* intervals, and the in operator throws a TypeError on undefined.
hasSlotInterval(s, slot) == Throw(TypeError)

cancelInterval(s, slot) ==
  LET found == hasSlotInterval(s, slot)
  IN IF found.err # NoError THEN Raise(s, found.err)
     ELSE IF ~found.val THEN Raise(s, NoIntervalError)
     ELSE LET x == IntervalCancel(s, IF slot \in DOMAIN s.intervals
                                       THEN s.intervals[slot] ELSE Null)
          IN [x EXCEPT !.intervals = [k \in DOMAIN @ \ {slot} |-> @[k]]]

setBufferInterval(s, interval) ==
  LET parsed == dfpParseDuration(interval)
  IN IF parsed.err # NoError THEN Raise(s, parsed.err)
     ELSE prioritize([s EXCEPT !.bufferInterval = Some(parsed.val)])

clearBufferInterval(s) ==
  IF ~hasBufferInterval(s) THEN s
  ELSE prioritize([disableBufferInterval(s) EXCEPT !.bufferInterval = Null])

\* oneShot is a JS value: undefined when the argument is left out.
setBufferBarrier(s, numberOfAds, oneShot) ==
  prioritize([s EXCEPT !.bufferBarrier = Some(numberOfAds),
                       !.oneShotBarrier = IF oneShot.t = "undefined" THEN TRUE
                                          ELSE Truthy(oneShot)])

setRefreshInterval(s, interval) ==
  LET parsed == dfpParseDuration(interval)
  IN IF parsed.err # NoError THEN Raise(s, parsed.err)
     ELSE prioritize(enableRefreshInterval(
            [s EXCEPT !.refreshInterval = Some(parsed.val)]))

clearRefreshInterval(s) == prioritize(disableRefreshInterval(s))

setPriority(s, option, p) ==
  LET validOption == ensureValidOption(option)
      validPriority == ensureValidPriority(p)
  IN IF validOption.err # NoError THEN Raise(s, validOption.err)
     ELSE IF validPriority.err # NoError THEN Raise(s, validPriority.err)
     ELSE [s EXCEPT !.priority = [k \in DOMAIN @ \cup {option} |->
                                    IF k = option THEN p ELSE @[k]]]

getPriority(s, option) ==
  LET valid == ensureValidOption(option)
  IN IF valid.err # NoError THEN valid ELSE Ret(getPriorityOf(s, option))

\* The setters of one mechanism call setPriority with the option alone:
\* the priority they are given is not passed on, and setPriority gets
\* undefined for it.
setRefreshPriority(s, p) == setPriority(s, "refresh", JSUndefined)
getRefreshPriority(s) == getPriority(s, "refresh")
setBarrierPriority(s, p) == setPriority(s, "barrier", JSUndefined)
getBarrierPriority(s) == getPriority(s, "barrier")
setIntervalPriority(s, p) ==
  LET valid == ensureValidPriority(p)
  IN IF valid.err # NoError THEN Raise(s, valid.err)
     ELSE setPriority(s, "interval", JSUndefined)
getIntervalPriority(s) == getPriority(s, "interval")

\* The $destroy listener of the root scope: intervals is a plain object
\* and has no forEach, so the call of intervals.forEach throws a TypeError
\* before any $interval.cancel.
destroy(s) == Raise(s, TypeError)

\* -------------------------------------------------------- responsiveResize
\* The closure of makeResponsive(slot): the boundaries responsiveResize
\* was given, the index, and the width of the browser window.  The index
\* counts from 0 as in the source, so the source's boundaries[i] is
\* boundaries[i + 1] here.
DefaultBoundaries == <<320, 780, 1480>>
Watcher(slot, boundaries, index, innerWidth) ==
  [slot |-> slot, boundaries |-> boundaries, index |-> index,
   innerWidth |-> innerWidth]

\* $window.innerWidth: $window is angular.element($window), the jqLite (or
\* jQuery) wrapper of the window and not the window.  The wrapper has no
\* number innerWidth (undefined under jqLite, a method under jQuery), and
\* either compares false with every number under < and under >=.
WindowInnerWidth(w) == JSUndefined
JSLess(x, y) == x.t = "number" /\ y.t = "number" /\ x.v < y.v
JSAtLeast(x, y) == x.t = "number" /\ y.t = "number" /\ x.v >= y.v

\* for (let index = 0, last; index < last; ++index): the last of the loop
\* is a variable of its own, declared without a value.
RECURSIVE determineIndexLoop(_, _, _, _)
determineIndexLoop(w, width, index, last) ==
  IF ~JSLess(JSNum(index), last) THEN Len(w.boundaries) - 1
  ELSE IF JSLess(width, JSNum(w.boundaries[index + 2])) THEN index
  ELSE determineIndexLoop(w, width, index + 1, last)
determineIndex(w) ==
  determineIndexLoop(w, WindowInnerWidth(w), 0, JSUndefined)

couldGrow(w) ==
  IF w.index + 1 >= Len(w.boundaries) THEN FALSE
  ELSE IF JSLess(WindowInnerWidth(w), JSNum(w.boundaries[w.index + 2]))
    THEN FALSE
  ELSE TRUE

couldShrink(w) ==
  IF w.index - 1 < 0 THEN FALSE
  ELSE IF JSAtLeast(WindowInnerWidth(w), JSNum(w.boundaries[w.index + 1]))
    THEN FALSE
  ELSE TRUE

\* The closure and the engine's state after a call of the watcher.
Watched(w, s) == [watcher |-> w, engine |-> s]

\* transition(delta): the index moves, then the slot is refreshed with a
\* callback; an exception of dfpRefresh leaves the index moved.
transition(w, s, delta) ==
  Watched([w EXCEPT !.index = @ + delta], dfpRefresh(s, w.slot, FunctionInput))

watchListener(w, s) ==
  IF couldGrow(w) THEN transition(w, s, 1)
  ELSE IF couldShrink(w) THEN transition(w, s, -1)
  ELSE Watched(w, s)

makeResponsive(slot, boundaries, innerWidth) ==
  LET w == Watcher(slot, boundaries, 0, innerWidth)
  IN [w EXCEPT !.index = determineIndex(w)]

\* ----------------------------------------------------------------- inputs
IntervalInputs ==
  {NumberInput(DefaultBufferInterval), StringInput(<<"1", "s">>),
   StringInput(<<"b", "o", "g", "u", "s">>), ObjectInput}
\* dfpRefresh(slot) and dfpRefresh(slot, callback)
NoIntervalInputs == {UndefinedInput, FunctionInput}
\* setBufferBarrier(3) and setBufferBarrier(2, false)
BarrierInputs == {<<3, JSUndefined>>, <<2, JSBool(FALSE)>>}
OptionInputs == {"refresh", "interval", "barrier", "BARRIER"}
PriorityInputs == {JSNum(2), JSString}
\* responsiveResize(element) and responsiveResize(element, boundaries)
BoundaryInputs == {DefaultBoundaries, <<600, 1200>>}
\* Widths of the window below, at, between and above the boundaries.
WidthInputs == {200, 320, 700, 780, 1300, 1480, 1600}

\* ---------------------------------------------------------------- actions
\* The latest entry of the log.
Latest == log[Len(log)]

\* What a log entry keeps of a call's arguments: the slot, a name (the
\* option, the timer's kind, "oneShot", "pending") and a number.
NoArg == [slot |-> "", opt |-> "", n |-> 0]
Entry(op, arg, r) == [op |-> op, arg |-> arg, out |-> r.out, err |-> r.err]

\* The state the call leaves, within the bounds of the model.
Commit(r) ==
  /\ Cardinality(r.timers) <= MaxTimers
  /\ Len(r.buffer) <= MaxBuffer
  /\ Len(r.cmd) <= MaxBuffer
  /\ bufferInterval' = r.bufferInterval
  /\ bufferBarrier' = r.bufferBarrier
  /\ oneShotBarrier' = r.oneShotBarrier
  /\ refreshInterval' = r.refreshInterval
  /\ priority' = r.priority
  /\ buffer' = r.buffer
  /\ intervals' = r.intervals
  /\ isEnabled' = r.isEnabled
  /\ timers' = r.timers
  /\ cmd' = r.cmd

\* The call or tick becomes the only entry of the log.
Note(op, arg, r) ==
  /\ Commit(r)
  /\ log' = <<Entry(op, arg, r)>>
  /\ watcher' = watcher

\* The request or tick is added to the log, which then holds the last
\* configuration call and what followed it.
Record(op, arg, r) ==
  /\ Len(log) < MaxLog
  /\ Commit(r)
  /\ log' = Append(log, Entry(op, arg, r))
  /\ watcher' = watcher

\* $get: the provider's configuration, then the first prioritize().
Init ==
  \E bi \in {Null, Some(DefaultBufferInterval)},
     bb \in {Null, Some(3)},
     ri \in {Null, Some(DefaultRefreshInterval)} :
    LET r == prioritize(
               [bufferInterval |-> bi, bufferBarrier |-> bb,
                oneShotBarrier |-> TRUE, refreshInterval |-> ri,
                priority |-> [refresh |-> JSNum(DefaultPriority),
                              interval |-> JSNum(DefaultPriority),
                              barrier |-> JSNum(DefaultPriority)],
                buffer |-> <<>>,
                intervals |-> [refresh |-> Null, buffer |-> Null],
                isEnabled |-> [refresh |-> ri # Null, interval |-> bi # Null,
                               barrier |-> bb # Null],
                timers |-> {}, cmd |-> <<>>, out |-> <<>>, err |-> NoError])
    IN /\ bufferInterval = r.bufferInterval
       /\ bufferBarrier = r.bufferBarrier
       /\ oneShotBarrier = r.oneShotBarrier
       /\ refreshInterval = r.refreshInterval
       /\ priority = r.priority
       /\ buffer = r.buffer
       /\ intervals = r.intervals
       /\ isEnabled = r.isEnabled
       /\ timers = r.timers
       /\ cmd = r.cmd
       /\ log = <<Entry("$get", NoArg, r)>>
       /\ watcher = Null

RequestRefresh ==
  \E slot \in Slots, interval \in NoIntervalInputs :
    Note("dfpRefresh", [NoArg EXCEPT !.slot = slot],
         dfpRefresh(State, slot, interval))

RequestInterval ==
  \E slot \in Slots, interval \in IntervalInputs :
    Note("dfpRefresh", [NoArg EXCEPT !.slot = slot, !.opt = "interval"],
         dfpRefresh(State, slot, interval))

CancelInterval ==
  \E slot \in Slots :
    Note("cancelInterval", [NoArg EXCEPT !.slot = slot],
         cancelInterval(State, slot))

SetBufferInterval ==
  \E interval \in IntervalInputs :
    Note("setBufferInterval", NoArg, setBufferInterval(State, interval))

ClearBufferInterval ==
  Note("clearBufferInterval", NoArg, clearBufferInterval(State))

SetBufferBarrier ==
  \E args \in BarrierInputs :
    Note("setBufferBarrier",
         [NoArg EXCEPT !.n = args[1],
                       !.opt = IF args[2].t = "undefined" \/ Truthy(args[2])
                                 THEN "oneShot" ELSE "persistent"],
         setBufferBarrier(State, args[1], args[2]))

ClearBufferBarrier ==
  Note("clearBufferBarrier", NoArg, clearBufferBarrier(State))

SetRefreshInterval ==
  \E interval \in IntervalInputs :
    Note("setRefreshInterval", NoArg, setRefreshInterval(State, interval))

\* The entry says whether a global refresh timer was live at the call.
ClearRefreshInterval ==
  Note("clearRefreshInterval",
       [NoArg EXCEPT !.opt = IF \E t \in timers : t.kind = "refresh"
                               THEN "pending" ELSE ""],
       clearRefreshInterval(State))

SetPriority ==
  \E option \in OptionInputs, p \in PriorityInputs :
    Note("setPriority", [NoArg EXCEPT !.opt = option],
              setPriority(State, option, p))

\* The entry keeps the type and the value of the priority given.
SetMechanismPriority ==
  \E p \in PriorityInputs :
    LET arg == [NoArg EXCEPT !.opt = p.t, !.n = p.v]
    IN \/ Note("setRefreshPriority", arg, setRefreshPriority(State, p))
       \/ Note("setBarrierPriority", arg, setBarrierPriority(State, p))
       \/ Note("setIntervalPriority", arg, setIntervalPriority(State, p))

\* A live timer fires: $interval runs the callback it was given.
TimerCallback(s, t) ==
  CASE t.kind = "refresh" -> refreshIntervalTask(s)
    [] t.kind = "buffer" -> bufferIntervalTask(s)
    [] t.kind = "slot" -> slotIntervalTask(s, Val(t.task))

Tick ==
  \E t \in timers :
    Note("tick", [NoArg EXCEPT !.opt = t.kind], TimerCallback(State, t))

\* The root scope dies and runs its $destroy listeners.
Destroy == Note("$destroy", NoArg, destroy(State))

Next ==
  \/ RequestRefresh
  \/ RequestInterval
  \/ CancelInterval
  \/ SetBufferInterval
  \/ ClearBufferInterval
  \/ SetBufferBarrier
  \/ ClearBufferBarrier
  \/ SetRefreshInterval
  \/ ClearRefreshInterval
  \/ SetPriority
  \/ SetMechanismPriority
  \/ Tick
  \/ Destroy

Spec == Init /\ [][Next]_vars

\* The same service, driven by configuration calls, refresh requests and
\* timer ticks only, with every request and tick since the last
\* configuration call kept in the log.
LoggedRequest ==
  \E slot \in Slots, interval \in NoIntervalInputs :
    Record("dfpRefresh", [NoArg EXCEPT !.slot = slot],
           dfpRefresh(State, slot, interval))

LoggedTick ==
  \E t \in timers :
    Record("tick", [NoArg EXCEPT !.opt = t.kind], TimerCallback(State, t))

NextLogged ==
  \/ LoggedRequest
  \/ LoggedTick
  \/ SetBufferInterval
  \/ ClearBufferInterval
  \/ SetBufferBarrier
  \/ ClearBufferBarrier
  \/ SetRefreshInterval
  \/ ClearRefreshInterval

SpecLogged == Init /\ [][NextLogged]_vars

\* The engine's own functions, called as scheduleRefresh and $interval
\* call them: the two branches of scheduleRefresh (bufferRefresh(task) and
\* refresh([task])) and the callbacks enableBufferInterval and
\* enableRefreshInterval hand to $interval, next to the configuration calls
\* of the barrier.
EngineBufferRefresh ==
  \E slot \in Slots :
    LET r == bufferRefresh(State, Task(slot, FreshDeferred(State)))
    IN /\ Cardinality(LiveTasks(r)) <= MaxTasks
       /\ Note("bufferRefresh", [NoArg EXCEPT !.slot = slot], r)

EngineRefresh ==
  \E slot \in Slots :
    LET r == refresh(State, Tasks(<<Some(Task(slot, FreshDeferred(State)))>>))
    IN /\ Cardinality(LiveTasks(r)) <= MaxTasks
       /\ Note("refresh", [NoArg EXCEPT !.slot = slot], r)

EngineBufferTick ==
  Note("tick", [NoArg EXCEPT !.opt = "buffer"], bufferIntervalTask(State))

EngineRefreshTick ==
  Note("tick", [NoArg EXCEPT !.opt = "refresh"], refreshIntervalTask(State))

NextEngine ==
  \/ EngineBufferRefresh
  \/ EngineRefresh
  \/ EngineBufferTick
  \/ EngineRefreshTick
  \/ SetBufferBarrier
  \/ ClearBufferBarrier

\* None of these functions reads the two intervals of the configuration,
\* so the engine is started from the configurations that leave them unset.
InitEngine == Init /\ bufferInterval = Null /\ refreshInterval = Null

SpecEngine == InitEngine /\ [][NextEngine]_vars

\* The duration parser, applied once to a number, to a string of at most
\* MaxLen characters (a digit, a letter of a unit, or another letter), of
\* which at most MaxDigits are digits, or to a value of another type.  The entry keeps the input, and the value
\* returned as the one element of its out.
Alphabet == {"1", "5", "m", "s", "i", "n", "h", "x"}
DurationStrings ==
  {s \in UNION {[1..k -> Alphabet] : k \in 0..MaxLen} :
     Cardinality({i \in 1..Len(s) : s[i] \in Digits}) <= MaxDigits}
ParserInputs ==
  {StringInput(s) : s \in DurationStrings}
    \cup {NumberInput(0), NumberInput(1500), ObjectInput, UndefinedInput,
          StringInput(<<"b", "o", "g", "u", "s">>)}

Parse ==
  /\ Latest.op = "$get"
  /\ \E interval \in ParserInputs :
       LET r == dfpParseDuration(interval)
       IN log' = <<[op |-> "dfpParseDuration", arg |-> interval,
                    out |-> IF r.err = NoError THEN <<r.val>> ELSE <<>>,
                    err |-> r.err]>>
  /\ UNCHANGED <<bufferInterval, bufferBarrier, oneShotBarrier,
                 refreshInterval, priority, buffer, intervals, isEnabled,
                 timers, cmd, watcher>>

NextParser == Parse

SpecParser == Init /\ [][NextParser]_vars

\* The watcher of a responsive slot and the resize events of the window.
\* The call or event becomes the only entry of the log, with the window's
\* width as its number.
Watch(op, res) ==
  /\ Commit(res.engine)
  /\ log' = <<Entry(op, [NoArg EXCEPT !.slot = res.watcher.slot,
                                      !.n = res.watcher.innerWidth],
                    res.engine)>>
  /\ watcher' = Some(res.watcher)

\* responsiveResize(slot, boundaries), up to the return of makeResponsive.
MakeResponsive ==
  /\ watcher = Null
  /\ \E slot \in Slots, boundaries \in BoundaryInputs, width \in WidthInputs :
       Watch("responsiveResize",
             Watched(makeResponsive(slot, boundaries, width), State))

\* The window is resized and its resize event runs watchListener.
Resize ==
  /\ watcher # Null
  /\ \E width \in WidthInputs :
       Watch("resize",
             watchListener([Val(watcher) EXCEPT !.innerWidth = width], State))

NextResize ==
  \/ MakeResponsive
  \/ Resize

SpecResize == Init /\ [][NextResize]_vars

\* ================================================================ claims
Mechanisms == {Options.REFRESH, Options.INTERVAL, Options.BARRIER}
Installed(m) == has(State, m).val
IsRequest(e) == e.op = "dfpRefresh" /\ e.arg.opt = ""
IsSweep(e) == \E i \in 1..Len(e.out) : e.out[i] = DispatchAll
RefreshTimers == {t \in timers : t.kind = "refresh"}
BufferTimers == {t \in timers : t.kind = "buffer"}
ConfigurationCalls ==
  {"setBufferInterval", "clearBufferInterval", "setBufferBarrier",
   "clearBufferBarrier", "setRefreshInterval", "clearRefreshInterval"}
\* The log holds a configuration call and refresh requests only.
OnlyRequests == \A i \in 2..Len(log) : IsRequest(log[i])
RequestedSlots(from, to) == [i \in 1..(to - from + 1) |-> log[from + i - 1].arg.slot]

\* The log starts with setBufferBarrier(n) with the given one-shot mode,
\* made while neither Interval nor Refresh is installed.
BarrierOnly(n, mode) ==
  /\ log[1].op = "setBufferBarrier"
  /\ log[1].arg.n = n
  /\ log[1].arg.opt = mode
  /\ bufferInterval = Null
  /\ refreshInterval = Null
  /\ OnlyRequests

\* C1: with only the Barrier installed by setBufferBarrier(3), the first
\* two refresh requests issue no Dispatcher call, the third issues exactly
\* one batch, of the three requested slots in order, and the barrier is
\* uninstalled after it.
C1_BarrierFlushesOnThird ==
  BarrierOnly(3, "oneShot") =>
    /\ Len(log) >= 2 => log[2].out = <<>>
    /\ Len(log) >= 3 => log[3].out = <<>>
    /\ Len(log) >= 4 =>
         /\ log[4].out = <<DispatchBatch(RequestedSlots(2, 4))>>
         /\ ~Installed(Options.BARRIER)

\* C2: once the third request after setBufferBarrier(3) has made the
\* one-shot barrier flush, with nothing else installed, the Barrier is
\* neither installed nor enabled, isBuffering() returns false, and every
\* later request is dispatched at once as a batch of its own slot.
C2_AfterOneShotImmediate ==
  (BarrierOnly(3, "oneShot") /\ Len(log) >= 4) =>
    /\ ~Installed(Options.BARRIER)
    /\ ~isEnabled.barrier
    /\ isBuffering(State).err = NoError
    /\ ~isBuffering(State).val
    /\ buffer = <<>>
    /\ \A i \in 5..Len(log) :
         log[i].out = <<DispatchBatch(<<log[i].arg.slot>>)>>

\* C3: with only a persistent barrier installed by setBufferBarrier(2,
\* false), every second request flushes one batch of the two slots
\* requested since the previous flush, the other requests issue nothing,
\* and the barrier stays installed and enabled.
C3_PersistentBarrierEverySecond ==
  BarrierOnly(2, "persistent") =>
    /\ \A i \in 2..Len(log) :
         log[i].out = IF (i - 1) % 2 = 0
                        THEN <<DispatchBatch(RequestedSlots(i - 1, i))>>
                        ELSE <<>>
    /\ Len(log) >= 3 => (Installed(Options.BARRIER) /\ isEnabled.barrier)

\* C4: after clearRefreshInterval() is called while a global refresh
\* timer is pending, and until the next configuration call, no sweep
\* fires, no global refresh timer is live and the Refresh mechanism is not
\* enabled.  (The claim also says the mechanism is no longer installed.)
C4_NoSweepAfterClear ==
  (log[1].op = "clearRefreshInterval" /\ log[1].arg.opt = "pending") =>
    /\ RefreshTimers = {}
    /\ ~isEnabled.refresh
    /\ \A i \in 2..Len(log) : ~IsSweep(log[i])

\* C5: after a setPriority(m, w) that returns and leaves the installed
\* mechanism m with a weight above every other weight of the table, m is
\* enabled and every other mechanism is disabled.
C5_HighestPriorityExclusive ==
  (/\ Latest.op = "setPriority"
   /\ Latest.err = NoError
   /\ Installed(Options[Latest.arg.opt])
   /\ \A k \in DOMAIN priority \ {Latest.arg.opt} :
        priority[k].v < priority[Latest.arg.opt].v) =>
    /\ isEnabled[Options[Latest.arg.opt]]
    /\ \A m \in Mechanisms \ {Options[Latest.arg.opt]} : ~isEnabled[m]

\* C6: while all priority weights are equal, every installed mechanism is
\* enabled after each set or clear configuration call.
EqualWeights == \A j, k \in DOMAIN priority : priority[j] = priority[k]
C6_EqualWeightsAllEnabled ==
  (EqualWeights /\ Latest.op \in ConfigurationCalls) =>
    \A m \in Mechanisms : Installed(m) => isEnabled[m]

\* C7: after each public configuration call an enabled mechanism is an
\* installed one.
C7_EnabledImpliesInstalled ==
  Latest.op \in ConfigurationCalls \cup {"setPriority"} =>
    \A m \in Mechanisms : isEnabled[m] => Installed(m)

\* C8: with no mechanism installed, every refresh request is dispatched
\* at once as a batch of its own slot, the batches are pushed in the order
\* of the requests, and the buffer stays empty.
NothingInstalled == \A m \in Mechanisms : ~Installed(m)
C8_UnconfiguredImmediate ==
  (NothingInstalled /\ log[1].op # "setBufferBarrier" /\ OnlyRequests) =>
    /\ buffer = <<>>
    /\ \A i \in 2..Len(log) : log[i].out = <<DispatchBatch(<<log[i].arg.slot>>)>>
    /\ Len(cmd) >= Len(log) - 1
    /\ \A i \in 2..Len(log) :
         LET batch == cmd[Len(cmd) - Len(log) + i]
         IN Len(batch) = 1 /\ batch[1].slot = log[i].arg.slot

\* C9: with only the Interval installed by setBufferInterval, a refresh
\* request issues no Dispatcher call and is buffered; a buffer-flush tick
\* dispatches the tasks buffered since the previous tick as one batch and
\* leaves the buffer empty.
LastTickBefore(i) ==
  LET ticks == {j \in 1..(i - 1) : log[j].op = "tick"}
  IN IF ticks = {} THEN 1 ELSE CHOOSE j \in ticks : \A k \in ticks : k <= j
C9_IntervalOnlyBuffers ==
  (/\ log[1].op = "setBufferInterval"
   /\ Installed(Options.INTERVAL)
   /\ ~Installed(Options.BARRIER)
   /\ ~Installed(Options.REFRESH)) =>
    /\ \A i \in 2..Len(log) :
         log[i].out =
           IF IsRequest(log[i]) \/ LastTickBefore(i) = i - 1 THEN <<>>
           ELSE <<DispatchBatch(RequestedSlots(LastTickBefore(i) + 1, i - 1))>>
    /\ Len(buffer) = Len(log) - LastTickBefore(Len(log) + 1)
    /\ \A k \in 1..Len(buffer) :
         /\ buffer[k] # Null
         /\ Val(buffer[k]).slot = log[LastTickBefore(Len(log) + 1) + k].arg.slot

\* C10: cancelInterval(slot) for a slot with no registered interval fails
\* with NoIntervalError and changes neither the slot registry, the buffer
\* nor the timers.
C10_CancelWithoutInterval ==
  [][(/\ log'[1].op = "cancelInterval"
      /\ log'[1].arg.slot \notin DOMAIN intervals) =>
       (/\ log'[1].err = NoIntervalError
        /\ UNCHANGED <<intervals, buffer, timers>>)]_vars

\* The live recurring timers of a slot.
SlotTimersOf(live, slot) ==
  {t \in {x \in live : x.kind = "slot"} : Val(t.task).slot = slot}
SlotTimers(slot) == SlotTimersOf(timers, slot)
\* The error the specification names for a second interval on a slot.
DuplicateIntervalError == "DFPRefreshError: Duplicate interval"

\* C11: a refresh request with a valid interval for a slot that already
\* has a registered recurring interval fails with DuplicateIntervalError and
\* leaves the slot's registered timer handle as it was.
C11_DuplicateIntervalRejected ==
  [][(/\ log'[1].op = "dfpRefresh"
      /\ log'[1].arg.opt = "interval"
      /\ log'[1].arg.slot \in DOMAIN intervals
      /\ log'[1].err \notin {DFPDurationError, TypeError}) =>
       (/\ log'[1].err = DuplicateIntervalError
        /\ log'[1].arg.slot \in DOMAIN intervals'
        /\ intervals'[log'[1].arg.slot] = intervals[log'[1].arg.slot])]_vars

\* C12: in every reachable state at most one recurring timer is live for
\* each slot.
C12_OneTimerPerSlot ==
  \A slot \in Slots : Cardinality(SlotTimers(slot)) <= 1

\* C13: cancelInterval(slot) for a slot with a registered recurring
\* interval returns normally, leaves no live timer of the slot (so that it
\* never ticks again) and leaves the slot unregistered, so that a new
\* interval request for it is a first one.
C13_CancelStopsTimer ==
  [][(/\ log'[1].op = "cancelInterval"
      /\ log'[1].arg.slot \in DOMAIN intervals) =>
       (/\ log'[1].err = NoError
        /\ SlotTimersOf(timers', log'[1].arg.slot) = {}
        /\ log'[1].arg.slot \notin DOMAIN intervals')]_vars

\* The tasks handed on for dispatch, each of which has its handle resolved
\* when its command runs: the queued batches and the buffered tasks.
Queued == Flatten(cmd)
NoTaskTwice ==
  \A i, j \in 1..Len(Queued) : i # j => Queued[i] # Queued[j]

\* C14: every task's handle is resolved exactly once, the task of a
\* recurring per-slot interval included: a tick of a slot's timer hands its
\* task on (to the buffer or to a queued batch), and no task is in the
\* queued batches twice.
C14_ResolvedExactlyOnce ==
  [][(log'[1].op = "tick" /\ log'[1].arg.opt = "slot") =>
       (/\ Len(Queued') + Len(buffer') = Len(Queued) + Len(buffer) + 1
        /\ NoTaskTwice')]_vars

BufferedTasks == {Val(e) : e \in {x \in SeqToSet(buffer) : x # Null}}
TasksOf(entries) == [i \in 1..Len(entries) |-> Val(entries[i])]
SlotsOf(tasks) == [i \in 1..Len(tasks) |-> tasks[i].slot]
IsRefreshTick(e) == e.op = "tick" /\ e.arg.opt = "refresh"

\* C15: a task that has been accepted has its handle resolved in the end,
\* also when a global refresh sweep fires or a mechanism is cleared while
\* it is buffered: no step drops a buffered task, which after the step is
\* still buffered or is in a queued batch, whose command resolves it.
C15_BufferedTaskNotDropped ==
  [][\A task \in BufferedTasks :
       task \in BufferedTasks' \cup SeqToSet(Flatten(cmd'))]_vars

\* C16: no handle is resolved before the Dispatcher call that carries its
\* slot: in the command of every queued batch the dispatch of the batch's
\* slots is the first event, each resolve comes after it and is of a task
\* whose slot the dispatch carried, and every task of the batch is resolved.
C16_DispatchBeforeResolve ==
  \A k \in 1..Len(cmd) :
    LET events == Command(cmd[k])
    IN /\ \A j \in 1..Len(events) :
            events[j].kind = "resolve" =>
              \E i \in 1..(j - 1) :
                /\ events[i].kind = "dispatch"
                /\ \E n \in 1..Len(events[i].slots) :
                     events[i].slots[n] = events[j].slots[1]
       /\ \A n \in 1..Len(cmd[k]) :
            \E j \in 1..Len(events) :
              events[j].kind = "resolve" /\ events[j].id = cmd[k][n].id
C16_BatchQueued ==
  \E k \in 1..Len(cmd) : Len(cmd[k]) >= 2

\* C17: a global refresh tick issues exactly one argument-less
\* dispatch-all call and no batch, and leaves the buffer with the length it
\* had and with the null placeholder in every entry.
C17_SweepKeepsLength ==
  [][IsRefreshTick(log'[1]) =>
       (/\ log'[1].out = <<DispatchAll>>
        /\ cmd' = cmd
        /\ Len(buffer') = Len(buffer)
        /\ \A i \in 1..Len(buffer') : buffer'[i] = Null)]_vars
C17_SweptBuffer ==
  /\ IsRefreshTick(Latest)
  /\ Latest.out = <<DispatchAll>>
  /\ Len(buffer) >= 2
  /\ \A i \in 1..Len(buffer) : buffer[i] = Null

\* C18: a step either leaves the buffer's length and entries as they were,
\* or puts the null placeholder in every entry, or appends the buffered
\* request's task at the tail, or is the flush of a barrier, which
\* dispatches the whole buffer with the new task and leaves it empty.
C18_BufferOnlyGrowsAtTail ==
  [][\/ /\ Len(buffer') = Len(buffer)
        /\ \/ buffer' = buffer
           \/ \A i \in 1..Len(buffer') : buffer'[i] = Null
     \/ /\ Len(buffer') = Len(buffer) + 1
        /\ SubSeq(buffer', 1, Len(buffer)) = buffer
        /\ log'[1].op = "bufferRefresh"
        /\ buffer'[Len(buffer')] # Null
        /\ Val(buffer'[Len(buffer')]).slot = log'[1].arg.slot
     \/ /\ buffer' = <<>>
        /\ log'[1].op = "bufferRefresh"
        /\ \A i \in 1..Len(buffer) : buffer[i] # Null
        /\ log'[1].out =
             <<DispatchBatch(SlotsOf(TasksOf(buffer)) \o <<log'[1].arg.slot>>)>>]_vars
C18_TwoBuffered ==
  /\ Latest.op = "bufferRefresh"
  /\ Len(buffer) >= 2
  /\ buffer[Len(buffer) - 1] # Null
  /\ buffer[Len(buffer)] # Null
  /\ Val(buffer[Len(buffer)]).slot = Latest.arg.slot

\* C20: a step issues at most one Dispatcher call; a batch is queued behind
\* the batches queued before it, which keep their order; and the batch
\* holds the buffered tasks in the order of the buffer (followed by the
\* task whose request reached the barrier), or the one task of an
\* immediate dispatch, with its slots handed to the Dispatcher in that order.
C20_OrderKept ==
  [][/\ Len(log'[1].out) <= 1
     /\ cmd' # cmd =>
          /\ Len(cmd') = Len(cmd) + 1
          /\ SubSeq(cmd', 1, Len(cmd)) = cmd
          /\ LET batch == cmd'[Len(cmd')]
             IN /\ log'[1].out = <<DispatchBatch(SlotsOf(batch))>>
                /\ Command(batch)[1].slots = SlotsOf(batch)
                /\ batch =
                     CASE log'[1].op = "tick" -> TasksOf(buffer)
                       [] log'[1].op = "bufferRefresh" ->
                            TasksOf(buffer) \o <<batch[Len(batch)]>>
                       [] OTHER -> <<batch[Len(batch)]>>
                /\ log'[1].op # "tick" =>
                     batch[Len(batch)].slot = log'[1].arg.slot]_vars
C20_TwoBatches ==
  /\ Len(cmd) >= 2
  /\ \E k \in 1..Len(cmd) :
       Len(cmd[k]) >= 2 /\ cmd[k][1].slot # cmd[k][2].slot

\* ------------------------------------------------------ the configuration
\* C21: a clear call for a mechanism that is not installed returns
\* normally and changes neither the installed values, the enabled flags,
\* the timers, the timer handles nor the buffer.
C21_RedundantClearNoOp ==
  [][(\/ log'[1].op = "clearBufferInterval" /\ bufferInterval = Null
      \/ log'[1].op = "clearBufferBarrier" /\ bufferBarrier = Null
      \/ log'[1].op = "clearRefreshInterval" /\ refreshInterval = Null) =>
       (/\ log'[1].err = NoError
        /\ UNCHANGED <<bufferInterval, bufferBarrier, refreshInterval,
                       isEnabled, timers, intervals, buffer>>)]_vars

\* C22: setPriority(option, w) with a weight w that is not a number fails
\* with a DFPRefreshError, which for an option setPriority accepts is the
\* priority error, and leaves every weight and every enabled flag as it
\* was.
NonNumericWeights == {JSString, JSUndefined, JSBool(TRUE)}
OtherNames == {"REFRESH", "INTERVAL", "BARRIER", "toString", "bogus", ""}
C23_UnknownNameRejected ==
  \A name \in OtherNames \ Mechanisms :
    /\ has(State, name).err = InvalidOptionError
    /\ dfpRefresh_isEnabled(State, name).err = InvalidOptionError

\* C24: isBuffering() returns without raising, and returns true exactly
\* when the Interval or the Barrier mechanism is enabled.
C24_IsBufferingReturns ==
  /\ isBuffering(State).err = NoError
  /\ isBuffering(State).val = (isEnabled.interval \/ isEnabled.barrier)

\* C25: a request made with a callback returns normally, and the command
\* it queues invokes the callback after the Dispatcher call.
C25_CallbackInvoked ==
  \A slot \in Slots :
    LET r == dfpRefresh(State, slot, FunctionInput)
    IN /\ r.err = NoError
       /\ \A k \in (Len(cmd) + 1)..Len(r.cmd) :
            LET events == Command(r.cmd[k])
            IN \E j \in 2..Len(events) : events[j].kind = "callback"

\* C26: after setRefreshPriority(p), setBarrierPriority(p) or
\* setIntervalPriority(p) with a number p the call has returned normally
\* and the matching getter returns p.
MechanismGetter(op) ==
  CASE op = "setRefreshPriority" -> getRefreshPriority(State)
    [] op = "setBarrierPriority" -> getBarrierPriority(State)
    [] op = "setIntervalPriority" -> getIntervalPriority(State)
C26_MechanismSetterSets ==
  (/\ Latest.op \in {"setRefreshPriority", "setBarrierPriority",
                     "setIntervalPriority"}
   /\ Latest.arg.opt = "number") =>
    /\ Latest.err = NoError
    /\ MechanismGetter(Latest.op).err = NoError
    /\ MechanismGetter(Latest.op).val = JSNum(Latest.arg.n)

\* ------------------------------------------------------------ the parser
\* What the specification takes for a well-formed duration string: digits
\* followed by nothing or by one of the units, and its value.
AcceptedUnits == {<<>>, <<"m", "s">>, <<"s">>, <<"m", "i", "n">>, <<"h">>}
DigitPrefix(s) ==
  LET ks == {k \in 0..Len(s) : \A j \in 1..k : s[j] \in Digits}
  IN CHOOSE k \in ks : \A m \in ks : m <= k
UnitSuffix(s) == SubSeq(s, DigitPrefix(s) + 1, Len(s))
WellFormed(s) == DigitPrefix(s) >= 1 /\ UnitSuffix(s) \in AcceptedUnits
Multiplier(unit) ==
  CASE unit = <<>> -> 1
    [] unit = <<"m", "s">> -> 1
    [] unit = <<"s">> -> 1000
    [] unit = <<"m", "i", "n">> -> 60000
    [] unit = <<"h">> -> 3600000
ExpectedDuration(s) ==
  parseInt(SubSeq(s, 1, DigitPrefix(s))) * Multiplier(UnitSuffix(s))
Parsed == Latest.op = "dfpParseDuration"

\* C27: the parser returns a number as it is, and for digits followed by
\* nothing or by ms, s, min or h it returns the digits' value times 1, 1,
\* 1000, 60000 or 3600000.
C27_ParserValue ==
  Parsed =>
    /\ Latest.arg.t = "number" =>
         (Latest.err = NoError /\ Latest.out = <<Latest.arg.n>>)
    /\ (Latest.arg.t = "string" /\ WellFormed(Latest.arg.s)) =>
         (Latest.err = NoError /\ Latest.out = <<ExpectedDuration(Latest.arg.s)>>)

\* C28: the parser raises a TypeError for an input that is neither a
\* string nor a number and a DFPDurationError for a string that is not
\* digits followed by nothing or by an accepted unit, and returns no value
\* then.
C28_ParserRejects ==
  Parsed =>
    /\ Latest.arg.t \notin {"number", "string"} =>
         (Latest.err = TypeError /\ Latest.out = <<>>)
    /\ (Latest.arg.t = "string" /\ ~WellFormed(Latest.arg.s)) =>
         (Latest.err = DFPDurationError /\ Latest.out = <<>>)

\* ------------------------------------------------ the barrier and sweeps
NonNull(entries) == SelectSeq(entries, LAMBDA e : e # Null)
\* The step is a buffered request that brings the buffer to the count of
\* the enabled barrier.
ReachesBarrier ==
  /\ log'[1].op = "bufferRefresh"
  /\ isEnabled.barrier
  /\ bufferBarrier = Some(Len(buffer) + 1)
\* The step dispatches one batch and leaves the buffer empty.
Flushes == buffer' = <<>> /\ Len(log'[1].out) = 1 /\ Len(cmd') = Len(cmd) + 1

\* C29: when a buffered request brings a buffer that holds null
\* placeholders to the barrier's count, the tasks that are not null are
\* dispatched as one batch in the order of the buffer, the new task last,
\* and the buffer is empty afterwards (the call may still end with the
\* error of the prioritization that follows a one-shot flush).
C29_FlushSkipsNulls ==
  [][(ReachesBarrier /\ \E i \in 1..Len(buffer) : buffer[i] = Null) =>
       (/\ log'[1].err \in {NoError, InvalidOptionError}
        /\ Flushes
        /\ SubSeq(cmd'[Len(cmd')], 1, Len(NonNull(buffer)))
             = TasksOf(NonNull(buffer))
        /\ log'[1].out = <<DispatchBatch(SlotsOf(TasksOf(NonNull(buffer)))
                                          \o <<log'[1].arg.slot>>)>>)]_vars

\* C30: with a barrier enabled, a buffered request flushes exactly when
\* it is the N-th since the buffer was last empty, N being the barrier's
\* count, whatever sweeps have fired in between.
C30_BarrierCountsRequests ==
  [][(/\ log'[1].op = "bufferRefresh"
      /\ isEnabled.barrier
      /\ bufferBarrier # Null) =>
       (Flushes <=> bufferBarrier = Some(Len(buffer) + 1))]_vars

\* ------------------------------------------------------------- the timers
\* C31: no timer is live for a mechanism that is not enabled: no
\* buffer-flush timer while Interval is not enabled, and no global refresh
\* timer while Refresh is not enabled.
C31_NoTimerWhenDisabled ==
  /\ ~isEnabled.interval => BufferTimers = {}
  /\ ~isEnabled.refresh => RefreshTimers = {}

\* C32: after every configuration call at most one buffer-flush timer and
\* at most one global refresh timer are live, and a live one is the one
\* whose handle the engine holds.
C32_OneTimerPerMechanism ==
  /\ Cardinality(BufferTimers) <= 1
  /\ Cardinality(RefreshTimers) <= 1
  /\ \A t \in BufferTimers : intervals.buffer = Some(t.h)
  /\ \A t \in RefreshTimers : intervals.refresh = Some(t.h)

\* C33: isEnabled(m), has(m), getPriority(m) and setPriority(m, w) with a
\* number w return without an error for each of the three mechanism names
\* 'refresh', 'interval' and 'barrier'.
C33_MechanismNamesAccepted ==
  \A m \in Mechanisms :
    /\ dfpRefresh_isEnabled(State, m).err = NoError
    /\ has(State, m).err = NoError
    /\ getPriority(State, m).err = NoError
    /\ setPriority(State, m, JSNum(2)).err = NoError

\* C34: every tick of a timer of the engine (buffer-flush, global refresh,
\* a slot's recurring timer) runs to its end without raising an error.
C34_TickCompletes ==
  Latest.op = "tick" => Latest.err = NoError

\* C35: with no mechanism installed, prioritization returns without an
\* error and leaves Interval, Barrier and Refresh disabled.
C35_PrioritizeNothingInstalled ==
  NothingInstalled =>
    /\ prioritize(State).err = NoError
    /\ \A m \in Mechanisms : ~prioritize(State).isEnabled[m]

\* C36: whenever the Barrier is enabled with a count, the buffer holds
\* fewer entries than the count, also after a barrier is installed over a
\* buffer that already holds entries.
C36_BufferBelowBarrier ==
  (isEnabled.barrier /\ bufferBarrier # Null) =>
    Len(buffer) < Val(bufferBarrier)

\* C37: no task is handed to the Dispatcher in two batches: a task is at
\* one place of one queued batch only, whatever requests, buffer-flush
\* ticks, barrier flushes and configuration calls have happened.
C37_AtMostOneBatch ==
  \A i, j \in 1..Len(cmd) :
    \A m \in 1..Len(cmd[i]), n \in 1..Len(cmd[j]) :
      cmd[i][m] = cmd[j][n] => (i = j /\ m = n)
C37_FlushThenTick ==
  /\ Len(cmd) >= 2
  /\ \E k \in 1..Len(cmd) : Len(cmd[k]) >= 2
  /\ Latest.op = "tick"
  /\ Latest.arg.opt = "buffer"
  /\ Len(Latest.out) = 1

\* C38: a request with an interval for a slot, and cancelInterval of a
\* slot, leave the buffer-flush timer and its handle, the global refresh
\* timer and its handle, the timers and handles of every other slot, the
\* buffer and the mechanism flags as they were.
C38_SlotIntervalFrame ==
  [][(\/ log'[1].op = "cancelInterval"
      \/ log'[1].op = "dfpRefresh" /\ log'[1].arg.opt = "interval") =>
       (/\ intervals'.buffer = intervals.buffer
        /\ intervals'.refresh = intervals.refresh
        /\ {t \in timers' : t.kind # "slot"} = {t \in timers : t.kind # "slot"}
        /\ \A other \in Slots \ {log'[1].arg.slot} :
             /\ SlotTimersOf(timers', other) = SlotTimersOf(timers, other)
             /\ (other \in DOMAIN intervals') = (other \in DOMAIN intervals)
             /\ other \in DOMAIN intervals =>
                  intervals'[other] = intervals[other]
        /\ UNCHANGED <<buffer, isEnabled>>)]_vars
C38_SecondSlotRegistered ==
  /\ Latest.op = "dfpRefresh"
  /\ Latest.arg.opt = "interval"
  /\ Latest.err = NoError
  /\ \E other \in Slots \ {Latest.arg.slot} :
       SlotTimers(other) # {} /\ other \in DOMAIN intervals

\* ------------------------------------------------------ the resize watcher
\* The index the window's width belongs to: the smallest index whose next
\* boundary is above the width, or the last index.
ExpectedIndex(boundaries, width) ==
  LET below == {i \in 0..(Len(boundaries) - 2) : width < boundaries[i + 2]}
  IN IF below = {} THEN Len(boundaries) - 1
     ELSE CHOOSE i \in below : \A j \in below : i <= j

\* C39: a resize event leaves the index within 0 .. boundaries.length-1
\* and moves it by at most one step; the index grows only when the
\* window's width is at least the next boundary and shrinks only when the
\* width is below the current boundary.
C39_IndexFollowsWidth ==
  [][log'[1].op = "resize" =>
       LET before == Val(watcher)
           after == Val(watcher')
       IN /\ after.index \in 0..(Len(after.boundaries) - 1)
          /\ after.index - before.index \in {-1, 0, 1}
          /\ after.index > before.index =>
               after.innerWidth >= after.boundaries[after.index + 1]
          /\ after.index < before.index =>
               after.innerWidth < after.boundaries[before.index + 1]]_vars

\* C40: determineIndex returns the index of the boundary interval that
\* holds the window's width: the smallest index i with width below
\* boundaries[i+1], or the last index.
C40_DetermineIndexFindsInterval ==
  Latest.op = "responsiveResize" =>
    Val(watcher).index =
      ExpectedIndex(Val(watcher).boundaries, Val(watcher).innerWidth)
====
